---- MODULE Spec2Model ----
(***************************************************************************)
(* Model of src/pages.rs of sealable: the three paste handlers             *)
(* (view_paste_request, editor_request, config_editor_request) and the     *)
(* markdown render endpoint, running concurrently against one Database.    *)
(* Every .await of a handler is one atomic step of the store; the code     *)
(* between two awaits belongs to the step that follows the first await.    *)
(***************************************************************************)
EXTENDS Integers, Sequences, FiniteSets, TLC

\* Number of requests in flight at once.
NumReqs == 2

Reqs == 1..NumReqs

\* Identifiers a request can name: "abc" and "x" are stored, "nope" is not.
Urls == {"abc", "x", "nope"}

\* Values of the query parameter view_password ("" is serde's default).
Creds == {"", "s3cret", "wrong"}

\* Bodies posted to /api/render.
Contents == {"# Hi", "**bold**"}

\* PasteError as text (e.to_string()).
NotFound == "NotFound"
StoreError == "StoreError"
Other == "Other"

\* Templates of pages.rs, by name.
PasteViewTemplate == "PasteViewTemplate"
ErrorViewTemplate == "ErrorViewTemplate"
EditorTemplate == "EditorTemplate"
ConfigEditorTemplate == "ConfigEditorTemplate"
PastePasswordTemplate == "PastePasswordTemplate"

\* A Paste value standing for "no paste bound yet".
NoPaste == [url |-> "", content |-> "", metadata |-> [title |-> "", view_password |-> ""]]

\* String::is_empty
is_empty(s) == s = ""

\* sauropod::markdown::parse_markdown on the contents the model uses.
shared_parse_markdown(content, flags) ==
    CASE content = "# Hi" -> "<h1>Hi</h1>"
      [] content = "**bold**" -> "<p><strong>bold</strong></p>"
      [] content = "" -> ""
      [] OTHER -> "<p>" \o content \o "</p>"

\* serde_json::to_string(&p.metadata)
to_string(metadata) ==
    "{\"title\":\"" \o metadata.title \o "\",\"view_password\":\"" \o metadata.view_password \o "\"}"

\* A paste_password.html that prefills the password field with the expected value.
paste_password_html_prefilled(paste) ==
    "password required: " \o paste.url \o " value=" \o paste.metadata.view_password

\* templates/paste_password.html: the credential-entry page of a paste. It
\* names the paste and asks for the password.
paste_password_html(paste) == "password required: " \o paste.url

\* What a handler returns: the template it renders and the template's fields.
Blank == [template |-> "", paste |-> NoPaste, rendered |-> "", title |-> "",
          views |-> -1, error |-> "", paste_metadata |-> "", page |-> ""]

VARIABLES
    options_view_password,  \* database.options.view_password
    pastes,                 \* the stored pastes, by url
    views,                  \* the stored view counts, by url
    pc,                     \* where each request is
    flow,                   \* the route a request came in on
    url,                    \* Path(url)
    query_params,           \* Query(query_params)
    req,                    \* Json(req) of /api/render
    p,                      \* the paste bound by Ok(p)
    rendered,               \* the local `rendered`
    result,                 \* the response
    calls,                  \* history: the steps a request has taken, in order
    before,                 \* history: the count just before the request's own increment
    others                  \* history: increments by other requests since the request's own

vars == <<options_view_password, pastes, views, pc, flow, url, query_params, req, p,
          rendered, result, calls, before, others>>

store == <<options_view_password, pastes, views>>
hist == <<calls, before, others>>

\* The pastes the store holds.
StoredPastes ==
    [u \in {"abc", "x"} |->
        IF u = "abc"
        THEN [url |-> "abc", content |-> "# Hi",
              metadata |-> [title |-> "", view_password |-> ""]]
        ELSE [url |-> "x", content |-> "**bold**",
              metadata |-> [title |-> "Secret notes", view_password |-> "s3cret"]]]

Init ==
    /\ options_view_password \in BOOLEAN
    /\ pastes = StoredPastes
    /\ views = [u \in Urls |-> 0]
    /\ pc = [r \in Reqs |-> "idle"]
    /\ flow = [r \in Reqs |-> ""]
    /\ url = [r \in Reqs |-> ""]
    /\ query_params = [r \in Reqs |-> [view_password |-> ""]]
    /\ req = [r \in Reqs |-> [content |-> ""]]
    /\ p = [r \in Reqs |-> NoPaste]
    /\ rendered = [r \in Reqs |-> ""]
    /\ result = [r \in Reqs |-> Blank]
    /\ calls = [r \in Reqs |-> <<>>]
    /\ before = [r \in Reqs |-> -1]
    /\ others = [r \in Reqs |-> 0]

\* Outcomes of Database::get_paste_by_url(u): Err(NotFound) for a url that is
\* not stored; for a stored one the paste, or the error of a failing backend.
get_paste_by_url(u) ==
    IF u \in DOMAIN pastes
    THEN {[ok |-> TRUE, paste |-> pastes[u], error |-> ""],
          [ok |-> FALSE, paste |-> NoPaste, error |-> StoreError]}
    ELSE {[ok |-> FALSE, paste |-> NoPaste, error |-> NotFound]}

\* Database::get_views_by_url(u)
get_views_by_url(u) == views[u]

\* incr_views_by_url that stores 1 instead of adding 1.
incr_views_by_url_set(u) == [views EXCEPT ![u] = 1]

\* incr_views_by_url that reports success and stores nothing.
incr_views_by_url_lost(u) == views

\* The store after a successful Database::incr_views_by_url(u).
incr_views_by_url(u) == [views EXCEPT ![u] = @ + 1]

\* Requests that have incremented and not yet read the count of u.
Pending(r, u) ==
    {o \in Reqs \ {r} : /\ p[o].url = u
                        /\ pc[o] \in {"view_check", "view_views"}}

\* A response that renders ErrorViewTemplate { error: e }.
ErrorView(e) == [Blank EXCEPT !.template = ErrorViewTemplate, !.error = e]

\* A response that renders PastePasswordTemplate { paste }.
PastePasswordView(paste) ==
    [Blank EXCEPT !.template = PastePasswordTemplate, !.paste = paste,
                  !.page = paste_password_html(paste)]

\* routes: a request r that has not been served arrives on route f with
\* Path(url) = u and Query(query_params) = [view_password |-> c].
routes(r, f, u, c) ==
    /\ pc[r] = "idle"
    /\ flow' = [flow EXCEPT ![r] = f]
    /\ url' = [url EXCEPT ![r] = u]
    /\ query_params' = [query_params EXCEPT ![r] = [view_password |-> c]]

\* view_password_check without the `true =>` arm: an empty credential passes.
view_password_check_no_empty_arm(q, paste) ==
    IF options_view_password = TRUE
    THEN IF is_empty(q.view_password)
         THEN FALSE
         ELSE /\ ~is_empty(paste.metadata.view_password)
              /\ q.view_password # paste.metadata.view_password
    ELSE FALSE

\* The `if` of lines 80-95: TRUE when the handler returns the password page.
view_password_check(q, paste) ==
    IF options_view_password = TRUE
    THEN IF is_empty(q.view_password)
         THEN ~is_empty(paste.metadata.view_password)
         ELSE /\ ~is_empty(paste.metadata.view_password)
              /\ q.view_password # paste.metadata.view_password
    ELSE FALSE

\* view_lookup with the view pushed before the lookup's result is matched.
view_lookup_incr_first(r) ==
    /\ \E u \in Urls, c \in Creds :
        /\ routes(r, "view", u, c)
        /\ views' = incr_views_by_url(u)
        /\ \E got \in get_paste_by_url(u) :
            IF got.ok
            THEN /\ p' = [p EXCEPT ![r] = got.paste]
                 /\ pc' = [pc EXCEPT ![r] = "view_incr"]
                 /\ UNCHANGED result
            ELSE /\ result' = [result EXCEPT ![r] = ErrorView(got.error)]
                 /\ pc' = [pc EXCEPT ![r] = "done"]
                 /\ UNCHANGED p
    /\ calls' = [calls EXCEPT ![r] = Append(@, "get_paste_by_url")]
    /\ UNCHANGED <<options_view_password, pastes, req, rendered, before, others>>

\* view_lookup that goes from Ok(p) straight to the view password check.
view_lookup_skip_incr(r) ==
    /\ \E u \in Urls, c \in Creds :
        /\ routes(r, "view", u, c)
        /\ \E got \in get_paste_by_url(u) :
            IF got.ok
            THEN /\ p' = [p EXCEPT ![r] = got.paste]
                 /\ pc' = [pc EXCEPT ![r] = "view_check"]
                 /\ UNCHANGED result
            ELSE /\ result' = [result EXCEPT ![r] = ErrorView(got.error)]
                 /\ pc' = [pc EXCEPT ![r] = "done"]
                 /\ UNCHANGED p
    /\ calls' = [calls EXCEPT ![r] = Append(@, "get_paste_by_url")]
    /\ UNCHANGED <<store, req, rendered, before, others>>

\* view_paste_request is called; database.get_paste_by_url(url).await and its match.
view_lookup(r) ==
    /\ \E u \in Urls, c \in Creds :
        /\ routes(r, "view", u, c)
        /\ \E got \in get_paste_by_url(u) :
            IF got.ok
            THEN /\ p' = [p EXCEPT ![r] = got.paste]
                 /\ pc' = [pc EXCEPT ![r] = "view_incr"]
                 /\ UNCHANGED result
            ELSE /\ result' = [result EXCEPT ![r] = ErrorView(got.error)]
                 /\ pc' = [pc EXCEPT ![r] = "done"]
                 /\ UNCHANGED p
    /\ calls' = [calls EXCEPT ![r] = Append(@, "get_paste_by_url")]
    /\ UNCHANGED <<store, req, rendered, before, others>>

\* view_incr that pushes the view only for a request the password check will pass.
view_incr_only_if_allowed(r) ==
    /\ pc[r] = "view_incr"
    /\ \E ok \in BOOLEAN :
        IF ok
        THEN /\ IF view_password_check(query_params[r], p[r])
                THEN UNCHANGED <<views, before, others>>
                ELSE /\ views' = incr_views_by_url(p[r].url)
                     /\ before' = [before EXCEPT ![r] = views[p[r].url]]
                     /\ others' = [o \in Reqs |->
                                      IF o \in Pending(r, p[r].url) THEN others[o] + 1
                                      ELSE others[o]]
             /\ pc' = [pc EXCEPT ![r] = "view_check"]
             /\ UNCHANGED result
        ELSE /\ result' = [result EXCEPT ![r] = ErrorView(StoreError)]
             /\ pc' = [pc EXCEPT ![r] = "done"]
             /\ UNCHANGED <<views, before, others>>
    /\ calls' = [calls EXCEPT ![r] = Append(@, "incr_views_by_url")]
    /\ UNCHANGED <<options_view_password, pastes, flow, url, query_params, req, p, rendered>>

\* view_incr that pushes the view twice.
view_incr_twice(r) ==
    /\ pc[r] = "view_incr"
    /\ views' = [views EXCEPT ![p[r].url] = @ + 2]
    /\ before' = [before EXCEPT ![r] = views[p[r].url]]
    /\ others' = [o \in Reqs |->
                     IF o \in Pending(r, p[r].url) THEN others[o] + 2 ELSE others[o]]
    /\ pc' = [pc EXCEPT ![r] = "view_check"]
    /\ calls' = [calls EXCEPT ![r] = @ \o <<"incr_views_by_url", "incr_views_by_url">>]
    /\ UNCHANGED <<options_view_password, pastes, flow, url, query_params, req, p,
                   rendered, result>>

\* view_incr that drops the Err of the increment (`let _ = ...`) and goes on.
view_incr_ignore_error(r) ==
    /\ pc[r] = "view_incr"
    /\ \E ok \in BOOLEAN :
        IF ok
        THEN /\ views' = incr_views_by_url(p[r].url)
             /\ before' = [before EXCEPT ![r] = views[p[r].url]]
             /\ others' = [o \in Reqs |->
                              IF o \in Pending(r, p[r].url) THEN others[o] + 1 ELSE others[o]]
        ELSE UNCHANGED <<views, before, others>>
    /\ pc' = [pc EXCEPT ![r] = "view_check"]
    /\ calls' = [calls EXCEPT ![r] = Append(@, "incr_views_by_url")]
    /\ UNCHANGED <<options_view_password, pastes, flow, url, query_params, req, p,
                   rendered, result>>

\* view_incr that calls the increment once more after an Err.
view_incr_retry(r) ==
    /\ pc[r] = "view_incr"
    /\ \E ok \in BOOLEAN, again \in BOOLEAN :
        /\ IF ok \/ again
           THEN /\ views' = incr_views_by_url(p[r].url)
                /\ before' = [before EXCEPT ![r] = views[p[r].url]]
                /\ others' = [o \in Reqs |->
                                 IF o \in Pending(r, p[r].url) THEN others[o] + 1
                                 ELSE others[o]]
                /\ pc' = [pc EXCEPT ![r] = "view_check"]
                /\ UNCHANGED result
           ELSE /\ result' = [result EXCEPT ![r] = ErrorView(StoreError)]
                /\ pc' = [pc EXCEPT ![r] = "done"]
                /\ UNCHANGED <<views, before, others>>
        /\ calls' = [calls EXCEPT ![r] =
                        IF ok THEN Append(@, "incr_views_by_url")
                        ELSE @ \o <<"incr_views_by_url", "incr_views_by_url">>]
    /\ UNCHANGED <<options_view_password, pastes, flow, url, query_params, req, p, rendered>>

\* view_paste_request: database.incr_views_by_url(p.url.clone()).await.
view_incr(r) ==
    /\ pc[r] = "view_incr"
    /\ \E ok \in BOOLEAN :
        IF ok
        THEN /\ views' = incr_views_by_url(p[r].url)
             /\ before' = [before EXCEPT ![r] = views[p[r].url]]
             /\ others' = [o \in Reqs |->
                              IF o \in Pending(r, p[r].url) THEN others[o] + 1 ELSE others[o]]
             /\ pc' = [pc EXCEPT ![r] = "view_check"]
             /\ UNCHANGED result
        ELSE /\ result' = [result EXCEPT ![r] = ErrorView(StoreError)]
             /\ pc' = [pc EXCEPT ![r] = "done"]
             /\ UNCHANGED <<views, before, others>>
    /\ calls' = [calls EXCEPT ![r] = Append(@, "incr_views_by_url")]
    /\ UNCHANGED <<options_view_password, pastes, flow, url, query_params, req, p, rendered>>

\* view_check with `rendered` computed ahead of the view password check.
view_check_eager(r) ==
    /\ pc[r] = "view_check"
    /\ rendered' = [rendered EXCEPT ![r] = shared_parse_markdown(p[r].content, <<>>)]
    /\ calls' = [calls EXCEPT ![r] = @ \o <<"parse_markdown", "view_password">>]
    /\ IF view_password_check(query_params[r], p[r])
       THEN /\ result' = [result EXCEPT ![r] = PastePasswordView(p[r])]
            /\ pc' = [pc EXCEPT ![r] = "done"]
       ELSE /\ pc' = [pc EXCEPT ![r] = "view_views"]
            /\ UNCHANGED result
    /\ UNCHANGED <<store, flow, url, query_params, req, p, before, others>>

\* view_paste_request, from the increment's return to the next await: the
\* view password check of lines 79-95 and, past it,
\* let rendered = shared_parse_markdown(p.content.clone(), Vec::new()).
view_check(r) ==
    /\ pc[r] = "view_check"
    /\ IF view_password_check(query_params[r], p[r])
       THEN /\ result' = [result EXCEPT ![r] = PastePasswordView(p[r])]
            /\ pc' = [pc EXCEPT ![r] = "done"]
            /\ calls' = [calls EXCEPT ![r] = Append(@, "view_password")]
            /\ UNCHANGED rendered
       ELSE /\ rendered' = [rendered EXCEPT ![r] = shared_parse_markdown(p[r].content, <<>>)]
            /\ pc' = [pc EXCEPT ![r] = "view_views"]
            /\ calls' = [calls EXCEPT ![r] = @ \o <<"view_password", "parse_markdown">>]
            /\ UNCHANGED result
    /\ UNCHANGED <<store, flow, url, query_params, req, p, before, others>>

\* title with the arms of the match swapped.
title_swapped(paste) ==
    IF is_empty(paste.metadata.title) THEN paste.metadata.title ELSE paste.url

\* The title field of PasteViewTemplate, lines 103-106.
title(paste) ==
    IF is_empty(paste.metadata.title) THEN paste.url ELSE paste.metadata.title

\* view_views that writes the display title back into the stored paste.
view_views_store_title(r) ==
    /\ pc[r] = "view_views"
    /\ result' = [result EXCEPT ![r] =
                    [Blank EXCEPT !.template = PasteViewTemplate,
                                  !.paste = p[r],
                                  !.rendered = rendered[r],
                                  !.title = title(p[r]),
                                  !.views = get_views_by_url(p[r].url)]]
    /\ pastes' = [pastes EXCEPT ![p[r].url].metadata.title = title(p[r])]
    /\ pc' = [pc EXCEPT ![r] = "done"]
    /\ calls' = [calls EXCEPT ![r] = Append(@, "get_views_by_url")]
    /\ UNCHANGED <<options_view_password, views, flow, url, query_params, req, p,
                   rendered, before, others>>

\* view_views with the raw content in place of `rendered`.
view_views_raw(r) ==
    /\ pc[r] = "view_views"
    /\ result' = [result EXCEPT ![r] =
                    [Blank EXCEPT !.template = PasteViewTemplate,
                                  !.paste = p[r],
                                  !.rendered = p[r].content,
                                  !.title = title(p[r]),
                                  !.views = get_views_by_url(p[r].url)]]
    /\ pc' = [pc EXCEPT ![r] = "done"]
    /\ calls' = [calls EXCEPT ![r] = Append(@, "get_views_by_url")]
    /\ UNCHANGED <<store, flow, url, query_params, req, p, rendered, before, others>>

\* view_paste_request: database.get_views_by_url(p.url).await and the response.
view_views(r) ==
    /\ pc[r] = "view_views"
    /\ result' = [result EXCEPT ![r] =
                    [Blank EXCEPT !.template = PasteViewTemplate,
                                  !.paste = p[r],
                                  !.rendered = rendered[r],
                                  !.title = title(p[r]),
                                  !.views = get_views_by_url(p[r].url)]]
    /\ pc' = [pc EXCEPT ![r] = "done"]
    /\ calls' = [calls EXCEPT ![r] = Append(@, "get_views_by_url")]
    /\ UNCHANGED <<store, flow, url, query_params, req, p, rendered, before, others>>

view_paste_request(r) ==
    \/ view_lookup(r)
    \/ view_incr(r)
    \/ view_check(r)
    \/ view_views(r)

\* editor_password_check without the test of database.options.view_password.
editor_password_check_no_flag(q, paste) ==
    IF is_empty(q.view_password)
    THEN ~is_empty(paste.metadata.view_password)
    ELSE /\ ~is_empty(paste.metadata.view_password)
         /\ q.view_password # paste.metadata.view_password

\* The `if` of lines 137-152: TRUE when the handler returns the password page.
editor_password_check(q, paste) ==
    IF options_view_password = TRUE
    THEN IF is_empty(q.view_password)
         THEN ~is_empty(paste.metadata.view_password)
         ELSE /\ ~is_empty(paste.metadata.view_password)
              /\ q.view_password # paste.metadata.view_password
    ELSE FALSE

\* editor_lookup with the `push view` of view_paste_request copied along.
editor_lookup_push_view(r) ==
    /\ \E u \in Urls, c \in Creds :
        /\ routes(r, "edit", u, c)
        /\ \E got \in get_paste_by_url(u) :
            IF got.ok
            THEN /\ p' = [p EXCEPT ![r] = got.paste]
                 /\ views' = incr_views_by_url(got.paste.url)
                 /\ pc' = [pc EXCEPT ![r] = "edit_check"]
                 /\ UNCHANGED result
            ELSE /\ result' = [result EXCEPT ![r] = ErrorView(got.error)]
                 /\ pc' = [pc EXCEPT ![r] = "done"]
                 /\ UNCHANGED <<p, views>>
    /\ calls' = [calls EXCEPT ![r] = Append(@, "get_paste_by_url")]
    /\ UNCHANGED <<options_view_password, pastes, req, rendered, before, others>>

\* editor_request is called; database.get_paste_by_url(url).await and its match.
editor_lookup(r) ==
    /\ \E u \in Urls, c \in Creds :
        /\ routes(r, "edit", u, c)
        /\ \E got \in get_paste_by_url(u) :
            IF got.ok
            THEN /\ p' = [p EXCEPT ![r] = got.paste]
                 /\ pc' = [pc EXCEPT ![r] = "edit_check"]
                 /\ UNCHANGED result
            ELSE /\ result' = [result EXCEPT ![r] = ErrorView(got.error)]
                 /\ pc' = [pc EXCEPT ![r] = "done"]
                 /\ UNCHANGED p
    /\ calls' = [calls EXCEPT ![r] = Append(@, "get_paste_by_url")]
    /\ UNCHANGED <<store, req, rendered, before, others>>

\* editor_request: the view password check and the EditorTemplate response.
editor_check(r) ==
    /\ pc[r] = "edit_check"
    /\ IF editor_password_check(query_params[r], p[r])
       THEN result' = [result EXCEPT ![r] = PastePasswordView(p[r])]
       ELSE result' = [result EXCEPT ![r] =
                         [Blank EXCEPT !.template = EditorTemplate, !.paste = p[r]]]
    /\ pc' = [pc EXCEPT ![r] = "done"]
    /\ calls' = [calls EXCEPT ![r] = Append(@, "view_password")]
    /\ UNCHANGED <<store, flow, url, query_params, req, p, rendered, before, others>>

editor_request(r) ==
    \/ editor_lookup(r)
    \/ editor_check(r)

\* config_password_check with `==` for `!=` in the comparison of line 186.
config_password_check_eq(q, paste) ==
    IF options_view_password = TRUE
    THEN IF is_empty(q.view_password)
         THEN ~is_empty(paste.metadata.view_password)
         ELSE /\ ~is_empty(paste.metadata.view_password)
              /\ q.view_password = paste.metadata.view_password
    ELSE FALSE

\* config_password_check without `!p.metadata.view_password.is_empty() &&`.
config_password_check_no_empty_test(q, paste) ==
    IF options_view_password = TRUE
    THEN IF is_empty(q.view_password)
         THEN ~is_empty(paste.metadata.view_password)
         ELSE q.view_password # paste.metadata.view_password
    ELSE FALSE

\* The `if` of lines 182-197: TRUE when the handler returns the password page.
config_password_check(q, paste) ==
    IF options_view_password = TRUE
    THEN IF is_empty(q.view_password)
         THEN ~is_empty(paste.metadata.view_password)
         ELSE /\ ~is_empty(paste.metadata.view_password)
              /\ q.view_password # paste.metadata.view_password
    ELSE FALSE

\* config_editor_request is called; database.get_paste_by_url(url).await and its match.
config_lookup(r) ==
    /\ \E u \in Urls, c \in Creds :
        /\ routes(r, "config", u, c)
        /\ \E got \in get_paste_by_url(u) :
            IF got.ok
            THEN /\ p' = [p EXCEPT ![r] = got.paste]
                 /\ pc' = [pc EXCEPT ![r] = "config_check"]
                 /\ UNCHANGED result
            ELSE /\ result' = [result EXCEPT ![r] = ErrorView(got.error)]
                 /\ pc' = [pc EXCEPT ![r] = "done"]
                 /\ UNCHANGED p
    /\ calls' = [calls EXCEPT ![r] = Append(@, "get_paste_by_url")]
    /\ UNCHANGED <<store, req, rendered, before, others>>

\* config_check with the serializer's Err(_) swallowed (`unwrap_or_default()`).
config_check_unwrap_or_default(r) ==
    /\ pc[r] = "config_check"
    /\ IF config_password_check(query_params[r], p[r])
       THEN /\ result' = [result EXCEPT ![r] = PastePasswordView(p[r])]
            /\ calls' = [calls EXCEPT ![r] = Append(@, "view_password")]
       ELSE /\ \E ok \in BOOLEAN :
                result' = [result EXCEPT ![r] =
                             [Blank EXCEPT !.template = ConfigEditorTemplate,
                                           !.paste = p[r],
                                           !.paste_metadata =
                                               IF ok THEN to_string(p[r].metadata) ELSE ""]]
            /\ calls' = [calls EXCEPT ![r] = @ \o <<"view_password", "to_string">>]
    /\ pc' = [pc EXCEPT ![r] = "done"]
    /\ UNCHANGED <<store, flow, url, query_params, req, p, rendered, before, others>>

\* config_editor_request, from the lookup's return to the response: the view
\* password check of lines 181-197 and, past it, serde_json::to_string(&p.metadata),
\* whose Err(_) is the branch of lines 205-213.
config_check(r) ==
    /\ pc[r] = "config_check"
    /\ IF config_password_check(query_params[r], p[r])
       THEN /\ result' = [result EXCEPT ![r] = PastePasswordView(p[r])]
            /\ calls' = [calls EXCEPT ![r] = Append(@, "view_password")]
       ELSE /\ \E ok \in BOOLEAN :
                IF ok
                THEN result' = [result EXCEPT ![r] =
                                  [Blank EXCEPT !.template = ConfigEditorTemplate,
                                                !.paste = p[r],
                                                !.paste_metadata = to_string(p[r].metadata)]]
                ELSE result' = [result EXCEPT ![r] = ErrorView(Other)]
            /\ calls' = [calls EXCEPT ![r] = @ \o <<"view_password", "to_string">>]
    /\ pc' = [pc EXCEPT ![r] = "done"]
    /\ UNCHANGED <<store, flow, url, query_params, req, p, rendered, before, others>>

config_editor_request(r) ==
    \/ config_lookup(r)
    \/ config_check(r)

\* render_markdown behind the view password flag: Err(()) when it is on.
render_markdown_gated(r) ==
    /\ pc[r] = "idle"
    /\ \E c \in Contents :
        /\ req' = [req EXCEPT ![r] = [content |-> c]]
        /\ result' = [result EXCEPT ![r] =
                        IF options_view_password
                        THEN [Blank EXCEPT !.template = "Err"]
                        ELSE [Blank EXCEPT !.template = "Ok",
                                           !.rendered = shared_parse_markdown(c, <<>>)]]
    /\ flow' = [flow EXCEPT ![r] = "render"]
    /\ pc' = [pc EXCEPT ![r] = "done"]
    /\ calls' = [calls EXCEPT ![r] = Append(@, "parse_markdown")]
    /\ UNCHANGED <<store, url, query_params, p, rendered, before, others>>

\* POST /api/render: Ok(shared_parse_markdown(req.content.clone(), Vec::new())).
render_markdown(r) ==
    /\ pc[r] = "idle"
    /\ \E c \in Contents :
        /\ req' = [req EXCEPT ![r] = [content |-> c]]
        /\ result' = [result EXCEPT ![r] =
                        [Blank EXCEPT !.template = "Ok",
                                      !.rendered = shared_parse_markdown(c, <<>>)]]
    /\ flow' = [flow EXCEPT ![r] = "render"]
    /\ pc' = [pc EXCEPT ![r] = "done"]
    /\ calls' = [calls EXCEPT ![r] = Append(@, "parse_markdown")]
    /\ UNCHANGED <<store, url, query_params, p, rendered, before, others>>

Next ==
    \E r \in Reqs :
        \/ view_paste_request(r)
        \/ editor_request(r)
        \/ config_editor_request(r)
        \/ render_markdown(r)

Spec == Init /\ [][Next]_vars


(***************************************************************************)
(* Properties                                                              *)
(***************************************************************************)

\* The three handlers that look a paste up.
Gated == {"view", "edit", "config"}

Done(r) == pc[r] = "done"

\* The request has taken step c.
Has(r, c) == \E i \in DOMAIN calls[r] : calls[r][i] = c

\* How often the request has taken step c.
Count(r, c) == Cardinality({i \in DOMAIN calls[r] : calls[r][i] = c})

\* The request got as far as the view password check.
Checked(r) == Has(r, "view_password")

Challenged(r) == result[r].template = PastePasswordTemplate

Viewed(r) == result[r].template = PasteViewTemplate

Errored(r) == result[r].template = ErrorViewTemplate

\* The responses of a request that passed the view password check.
Allowed(r) ==
    \/ flow[r] = "view" /\ (Done(r) => Viewed(r))
    \/ flow[r] = "edit" /\ result[r].template = EditorTemplate
    \/ flow[r] = "config" /\ \/ result[r].template = ConfigEditorTemplate
                             \/ result[r] = ErrorView(Other)

\* The stored password is set and enforced for the paste the request found.
Protected(r) ==
    /\ options_view_password
    /\ ~is_empty(p[r].metadata.view_password)

\* C1: with the feature flag on and a non-empty view_password on the paste, a
\* request of the view, edit or edit-config flow that reached the check is
\* answered with the password page exactly when its credential (empty or
\* not) differs from view_password; with the exact password it is let through.
C1_ChallengeIffCredentialDiffers ==
    \A r \in Reqs :
        (flow[r] \in Gated /\ Checked(r) /\ Protected(r)) =>
            IF query_params[r].view_password = p[r].metadata.view_password
            THEN ~Challenged(r) /\ Allowed(r)
            ELSE Done(r) /\ Challenged(r)

\* C1's case: under enforcement one request with a wrong or missing
\* credential was challenged and one with the exact password was served.
C1_Witness ==
    \E r1, r2 \in Reqs :
        /\ Protected(r1) /\ Done(r1) /\ Challenged(r1)
        /\ query_params[r1].view_password \in {"", "wrong"}
        /\ Protected(r2) /\ Done(r2) /\ ~Challenged(r2) /\ ~Errored(r2)
        /\ query_params[r2].view_password = p[r2].metadata.view_password

\* C2: with the feature flag off no request is answered with the password
\* page, whatever the paste's view_password and the credential; a request
\* that reached the check is let through.
C2_FlagOffNeverChallenges ==
    ~options_view_password =>
        \A r \in Reqs : /\ ~Challenged(r)
                        /\ (flow[r] \in Gated /\ Checked(r)) => Allowed(r)

\* C2's case: flag off, a paste with a password, a credential that does not
\* match it, and the request was served.
C2_Witness ==
    \E r \in Reqs :
        /\ ~options_view_password
        /\ flow[r] \in Gated /\ Done(r) /\ Checked(r)
        /\ ~is_empty(p[r].metadata.view_password)
        /\ query_params[r].view_password # p[r].metadata.view_password
        /\ ~Challenged(r) /\ ~Errored(r)

\* C3: a paste whose view_password is empty is never answered with the
\* password page, for either value of the flag and every credential.
C3_NoPasswordAlwaysAllows ==
    \A r \in Reqs :
        (flow[r] \in Gated /\ Checked(r) /\ is_empty(p[r].metadata.view_password)) =>
            ~Challenged(r) /\ Allowed(r)

\* C3's case: flag on, a paste without password, a non-empty credential,
\* and the request was served.
C3_Witness ==
    \E r \in Reqs :
        /\ options_view_password
        /\ flow[r] \in Gated /\ Done(r) /\ Checked(r)
        /\ is_empty(p[r].metadata.view_password)
        /\ ~is_empty(query_params[r].view_password)
        /\ ~Challenged(r) /\ ~Errored(r)

\* C4: the count a Viewed response reports is the count the store held
\* before this request's increment, plus one for that increment, plus the
\* increments other viewers of the same paste made before the count was
\* read: it includes the request's own increment, exactly once.
C4_ReportedCountIncludesOwnIncrement ==
    \A r \in Reqs :
        (Done(r) /\ Viewed(r)) =>
            /\ before[r] >= 0
            /\ result[r].views = before[r] + 1 + others[r]
            /\ result[r].views <= views[p[r].url]

\* C4's case: a Viewed response whose request ran concurrently with another
\* viewer of the same paste, which incremented between this request's
\* increment and its read.
C4_Witness ==
    \E r \in Reqs : Done(r) /\ Viewed(r) /\ others[r] >= 1

\* C5: a view request that ends in Viewed issued exactly one increment, the
\* increment succeeded, and it came before the read of the count.
C5_ViewedIncrementedOnceBeforeRead ==
    \A r \in Reqs :
        (Done(r) /\ Viewed(r)) =>
            /\ Count(r, "incr_views_by_url") = 1
            /\ Count(r, "get_views_by_url") = 1
            /\ before[r] >= 0
            /\ \A i, j \in DOMAIN calls[r] :
                (calls[r][i] = "incr_views_by_url" /\ calls[r][j] = "get_views_by_url")
                    => i < j

\* C5's case: a view request has ended in Viewed.
C5_Witness ==
    \E r \in Reqs : flow[r] = "view" /\ Done(r) /\ Viewed(r) /\ result[r].views >= 1

\* The request's lookup failed: it is done and no paste was bound.
LookupFailed(r) == flow[r] \in Gated /\ Done(r) /\ p[r] = NoPaste

\* C6 (state part): a request whose lookup failed answers Error with the
\* store's message and has taken no other step: no increment, no check, no
\* rendering, no read of the count.
C6_LookupFailureState ==
    \A r \in Reqs :
        LookupFailed(r) =>
            /\ Errored(r)
            /\ result[r].error \in {NotFound, StoreError}
            /\ (result[r].error = NotFound) <=> (url[r] \notin DOMAIN pastes)
            /\ calls[r] = <<"get_paste_by_url">>
            /\ before[r] = -1
            /\ rendered[r] = ""
            /\ result[r].views = -1

\* C6 (step part): the step in which a lookup fails leaves every view count
\* as it was.
C6_LookupFailureStep ==
    \A r \in Reqs :
        (pc[r] = "idle" /\ pc'[r] = "done" /\ flow'[r] \in Gated) =>
            /\ result'[r].template = ErrorViewTemplate
            /\ views' = views

\* C6: in every flow a failed lookup ends the request with Error carrying the
\* store's message; nothing else is done and the view count is unchanged.
C6_LookupFailureIsTerminal ==
    [](C6_LookupFailureState) /\ [][C6_LookupFailureStep]_vars

\* C6's case: a lookup of a missing paste and a lookup that hit a storage
\* error have both ended in Error.
C6_Witness ==
    \E r1, r2 \in Reqs :
        /\ LookupFailed(r1) /\ result[r1].error = NotFound
        /\ LookupFailed(r2) /\ result[r2].error = StoreError

\* The request's lookup succeeded and its increment failed.
IncrFailed(r) ==
    /\ flow[r] = "view" /\ p[r] # NoPaste
    /\ Has(r, "incr_views_by_url") /\ before[r] = -1

\* C7: in the view flow a failed increment after a successful lookup ends
\* the request with Error, whatever the flag, the paste's password and the
\* credential; the check is not made, nothing is rendered, no count is read.
C7_IncrementFailureIsError ==
    \A r \in Reqs :
        IncrFailed(r) =>
            /\ Done(r) /\ Errored(r)
            /\ result[r].error = StoreError
            /\ calls[r] = <<"get_paste_by_url", "incr_views_by_url">>
            /\ rendered[r] = "" /\ result[r].rendered = ""
            /\ result[r].views = -1

\* C7's case: the increment failed for a request that would have been
\* allowed and for one that would have been challenged.
C7_Witness ==
    \E r1, r2 \in Reqs :
        /\ IncrFailed(r1) /\ ~view_password_check(query_params[r1], p[r1])
        /\ IncrFailed(r2) /\ view_password_check(query_params[r2], p[r2])

\* The steps of a view request, in the order of the code.
ViewOrder ==
    <<"get_paste_by_url", "incr_views_by_url", "view_password", "parse_markdown",
      "get_views_by_url">>

\* C8: a view request takes its steps in the order lookup, increment, access
\* check, render, count read; when the access check is made the single
\* increment has returned successfully.
C8_ViewStepOrder ==
    \A r \in Reqs :
        flow[r] = "view" =>
            /\ Len(calls[r]) <= Len(ViewOrder)
            /\ calls[r] = SubSeq(ViewOrder, 1, Len(calls[r]))
            /\ Checked(r) => (before[r] >= 0 /\ views[p[r].url] >= before[r] + 1)

\* C8's case: a view request has taken all five steps.
C8_Witness ==
    \E r \in Reqs : flow[r] = "view" /\ Done(r) /\ calls[r] = ViewOrder

\* C9: a view request answered with the password page has rendered nothing
\* and its response carries neither rendered content nor a view count.
C9_ChallengeRendersNothing ==
    \A r \in Reqs :
        (flow[r] = "view" /\ Challenged(r)) =>
            /\ ~Has(r, "parse_markdown")
            /\ ~Has(r, "get_views_by_url")
            /\ rendered[r] = ""
            /\ result[r].rendered = ""
            /\ result[r].views = -1

\* C9's case: a view request was answered with the password page.
C9_Witness ==
    \E r \in Reqs : flow[r] = "view" /\ Done(r) /\ Challenged(r)

\* Non-empty passwords a paste could carry.
Passwords == {"s3cret", "hunter2"}

\* C10: the password page does not depend on the expected password: for the
\* paste of a challenged request and any paste that differs from it only in
\* a non-empty view_password the credential does not match either, the
\* request is challenged for both and the page is the same.
C10_ChallengeHidesPassword ==
    \A r \in Reqs :
        (flow[r] \in Gated /\ Challenged(r)) =>
            \A pw \in Passwords \ {query_params[r].view_password} :
                LET p2 == [p[r] EXCEPT !.metadata.view_password = pw] IN
                    /\ view_password_check(query_params[r], p2)
                    /\ PastePasswordView(p2).page = result[r].page

\* C10's case: a request with a wrong credential was challenged.
C10_Witness ==
    \E r \in Reqs :
        /\ Done(r) /\ Challenged(r)
        /\ query_params[r].view_password = "wrong"
        /\ result[r].page # ""


\* The request r takes a step.
Steps(r) == pc'[r] # pc[r]

\* C11 (state part): an edit or edit-config request never holds an increment,
\* a rendering or a count; an edit request that passed the check answers
\* EditorTemplate with the paste as the lookup returned it.
C11_EditState ==
    \A r \in Reqs :
        flow[r] \in {"edit", "config"} =>
            /\ ~Has(r, "incr_views_by_url")
            /\ ~Has(r, "parse_markdown")
            /\ before[r] = -1
            /\ result[r].rendered = "" /\ result[r].views = -1
            /\ (flow[r] = "edit" /\ Done(r) /\ ~LookupFailed(r) /\ ~Challenged(r)) =>
                    /\ result[r].template = EditorTemplate
                    /\ result[r].paste = pastes[url[r]]
                    /\ result[r].paste.content
                           # shared_parse_markdown(pastes[url[r]].content, <<>>)

\* C11 (step part): a step of an edit or edit-config request leaves every
\* view count as it was.
C11_EditStep ==
    \A r \in Reqs :
        (Steps(r) /\ flow'[r] \in {"edit", "config"}) => views' = views

\* C11: the edit and edit-config flows never increment a view count, whatever
\* their outcome; on Allow the edit flow answers with the raw paste.
C11_EditFlowsLeaveCounts ==
    [](C11_EditState) /\ [][C11_EditStep]_vars

\* C11's case: an edit request was served the editor and an edit-config request
\* the config form.
C11_Witness ==
    \E r1, r2 \in Reqs :
        /\ flow[r1] = "edit" /\ Done(r1) /\ result[r1].template = EditorTemplate
        /\ flow[r2] = "config" /\ Done(r2) /\ result[r2].template = ConfigEditorTemplate

\* The Access Policy Evaluator as the specification states it (4.1).
evaluate(metadata, supplied, feature_enabled) ==
    IF ~feature_enabled THEN "Allow"
    ELSE IF metadata.view_password = "" THEN "Allow"
    ELSE IF supplied = "" THEN "Challenge"
    ELSE IF supplied # metadata.view_password THEN "Challenge"
    ELSE "Allow"

\* C12: for every stored paste and every credential the three handlers'
\* checks agree with one another and with evaluate; and every request that
\* reached its check was challenged exactly when evaluate says Challenge.
C12_FlowsAgreeWithEvaluate ==
    /\ \A u \in DOMAIN pastes, c \in Creds :
        LET q == [view_password |-> c]
            e == evaluate(pastes[u].metadata, c, options_view_password) = "Challenge"
        IN /\ view_password_check(q, pastes[u]) = e
           /\ editor_password_check(q, pastes[u]) = e
           /\ config_password_check(q, pastes[u]) = e
    /\ \A r \in Reqs :
        (flow[r] \in Gated /\ Checked(r) /\ Done(r)) =>
            (Challenged(r) <=>
                evaluate(p[r].metadata, query_params[r].view_password,
                         options_view_password) = "Challenge")

\* C12's case: two requests of different flows with the same paste and the
\* same wrong credential were both challenged.
C12_Witness ==
    \E r1, r2 \in Reqs :
        /\ flow[r1] # flow[r2]
        /\ flow[r1] \in Gated /\ flow[r2] \in Gated
        /\ url[r1] = url[r2] /\ query_params[r1] = query_params[r2]
        /\ Done(r1) /\ Done(r2) /\ Challenged(r1) /\ Challenged(r2)

\* C13: the edit-config flow serializes the metadata only after a successful
\* lookup and a passed check; the request then ends either in Error with the
\* "other" kind or in ConfigEditorTemplate with the paste and the metadata
\* as a JSON string.
C13_SerializationOutcome ==
    \A r \in Reqs :
        /\ Has(r, "to_string") =>
            /\ flow[r] = "config"
            /\ calls[r] = <<"get_paste_by_url", "view_password", "to_string">>
            /\ p[r] = pastes[url[r]]
            /\ ~config_password_check(query_params[r], p[r])
            /\ Done(r)
            /\ \/ result[r] = ErrorView(Other)
               \/ /\ result[r].template = ConfigEditorTemplate
                  /\ result[r].paste = p[r]
                  /\ result[r].paste_metadata = to_string(p[r].metadata)
                  /\ result[r].paste_metadata # ""
        /\ (flow[r] = "config" /\ Done(r) /\ ~Has(r, "to_string")) =>
            (Challenged(r) \/ LookupFailed(r))

\* C13's case: one edit-config request ended in the serializer's error and one
\* in the config form.
C13_Witness ==
    \E r1, r2 \in Reqs :
        /\ Has(r1, "to_string") /\ result[r1] = ErrorView(Other)
        /\ Has(r2, "to_string") /\ result[r2].template = ConfigEditorTemplate


\* C14: the title of a Viewed response is the requested identifier when the
\* paste's title is empty and the paste's title otherwise.
C14_TitleSelection ==
    \A r \in Reqs :
        (Done(r) /\ Viewed(r)) =>
            LET stored == pastes[url[r]].metadata.title IN
                /\ (stored = "") => (result[r].title = url[r])
                /\ (stored # "") => (result[r].title = stored)

\* C14's case: one Viewed response for a paste without title and one for a
\* paste with a title.
C14_Witness ==
    \E r1, r2 \in Reqs :
        /\ Done(r1) /\ Viewed(r1) /\ result[r1].title = "abc"
        /\ Done(r2) /\ Viewed(r2) /\ result[r2].title = "Secret notes"

\* The store calls among the steps of a request.
StoreCalls == {"get_paste_by_url", "incr_views_by_url", "get_views_by_url"}

\* C15: a request makes at most one lookup and at most one increment call;
\* when either fails it is the request's last store call and the request is
\* finished with Error.
C15_NoRetryAfterStoreFailure ==
    \A r \in Reqs :
        /\ Count(r, "get_paste_by_url") <= 1
        /\ Count(r, "incr_views_by_url") <= 1
        /\ (flow[r] \in Gated /\ p[r] = NoPaste /\ Has(r, "get_paste_by_url")) =>
            /\ Done(r) /\ Errored(r)
            /\ Len(calls[r]) = 1
        /\ (Has(r, "incr_views_by_url") /\ before[r] = -1) =>
            /\ Done(r) /\ Errored(r)
            /\ calls[r][Len(calls[r])] = "incr_views_by_url"
            /\ Cardinality({i \in DOMAIN calls[r] : calls[r][i] \in StoreCalls}) = 2

\* C15's case: one request ended on a failed lookup and one on a failed
\* increment.
C15_Witness ==
    \E r1, r2 \in Reqs :
        /\ LookupFailed(r1) /\ Errored(r1)
        /\ IncrFailed(r2) /\ Errored(r2)

\* C16 (state part): a render request is answered Ok with the rendering of
\* its content, has made no store call and bound no paste, for either value of
\* the flag; two render requests with the same content have the same answer.
C16_RenderState ==
    /\ \A r \in Reqs :
        flow[r] = "render" =>
            /\ Done(r)
            /\ result[r].template = "Ok"
            /\ result[r].rendered = shared_parse_markdown(req[r].content, <<>>)
            /\ calls[r] = <<"parse_markdown">>
            /\ p[r] = NoPaste /\ before[r] = -1 /\ result[r].views = -1
    /\ \A r1, r2 \in Reqs :
        (flow[r1] = "render" /\ flow[r2] = "render" /\ req[r1] = req[r2]) =>
            result[r1] = result[r2]

\* C16 (step part): the step of a render request leaves the store as it was.
C16_RenderStep ==
    \A r \in Reqs :
        (Steps(r) /\ flow'[r] = "render") =>
            /\ views' = views
            /\ pastes' = pastes
            /\ options_view_password' = options_view_password

\* C16: the render endpoint checks no password, touches no store state, always
\* succeeds and gives the same output for the same content.
C16_RenderIsPure ==
    [](C16_RenderState) /\ [][C16_RenderStep]_vars

\* C16's case: two render requests with the same content were answered, with
\* the password flag on.
C16_Witness ==
    \E r1, r2 \in Reqs :
        /\ r1 # r2
        /\ options_view_password
        /\ flow[r1] = "render" /\ flow[r2] = "render"
        /\ req[r1].content = "**bold**" /\ req[r2] = req[r1]
        /\ Done(r1) /\ Done(r2)

\* C17: a finished view request is Viewed exactly when its lookup and its
\* increment succeeded and evaluate allows it; the rendered field is then the
\* renderer's output, with no flags, for the content of the paste the lookup
\* returned. Every other finished view request is a password page or an error.
C17_ViewedIffAllowed ==
    \A r \in Reqs :
        (flow[r] = "view" /\ Done(r)) =>
            /\ Viewed(r) <=>
                /\ p[r] # NoPaste
                /\ before[r] >= 0
                /\ evaluate(p[r].metadata, query_params[r].view_password,
                            options_view_password) = "Allow"
            /\ Viewed(r) =>
                /\ p[r] = pastes[url[r]]
                /\ result[r].paste = p[r]
                /\ result[r].rendered = shared_parse_markdown(p[r].content, <<>>)
                /\ result[r].rendered # p[r].content
            /\ ~Viewed(r) => (Challenged(r) \/ Errored(r))
            /\ ~Viewed(r) => result[r].rendered = ""

\* C17's case: with the flag on, a protected paste was viewed with its
\* password.
C17_Witness ==
    \E r \in Reqs :
        /\ options_view_password
        /\ flow[r] = "view" /\ Done(r) /\ Viewed(r)
        /\ p[r].metadata.view_password = "s3cret"
        /\ result[r].rendered = "<p><strong>bold</strong></p>"


\* C18 (step part): every step leaves the pastes and the feature flag as they
\* were; a step that changes a view count is the increment of a view request
\* and adds one to the count of the paste that request looked up.
C18_FrameStep ==
    /\ pastes' = pastes
    /\ options_view_password' = options_view_password
    /\ (views' # views) =>
        \E r \in Reqs :
            /\ flow[r] = "view"
            /\ pc[r] = "view_incr" /\ pc'[r] = "view_check"
            /\ views' = [views EXCEPT ![p[r].url] = @ + 1]

\* C18: no handler changes a paste's content or metadata or the feature flag;
\* the only store state that changes is a view count, through the view flow's
\* increment.
C18_OnlyViewCountChanges ==
    [](pastes = StoredPastes) /\ [][C18_FrameStep]_vars

\* C18's case: a view was counted and served, and an edit or edit-config
\* request has finished on the same store.
C18_Witness ==
    \E r1, r2 \in Reqs :
        /\ flow[r1] = "view" /\ Done(r1) /\ Viewed(r1) /\ views[url[r1]] >= 1
        /\ flow[r2] \in {"edit", "config"} /\ Done(r2) /\ ~LookupFailed(r2)

\* View requests for u that were answered with template t.
Answered(u, t) ==
    {r \in Reqs : flow[r] = "view" /\ url[r] = u /\ Done(r) /\ result[r].template = t}

\* C19: a view request answered with the password page has made its one
\* increment, successfully, before the check; so the count of a paste covers
\* the challenged view requests as well as the Viewed ones.
C19_ChallengedViewIsCounted ==
    /\ \A r \in Reqs :
        (flow[r] = "view" /\ Challenged(r)) =>
            /\ calls[r] = <<"get_paste_by_url", "incr_views_by_url", "view_password">>
            /\ before[r] >= 0
            /\ views[p[r].url] >= before[r] + 1
    /\ \A u \in DOMAIN pastes :
        views[u] >= Cardinality(Answered(u, PastePasswordTemplate))
                    + Cardinality(Answered(u, PasteViewTemplate))

\* C19's case: a paste whose only view request was challenged has a count of
\* one.
C19_Witness ==
    \E r \in Reqs :
        /\ flow[r] = "view" /\ Done(r) /\ Challenged(r)
        /\ Answered(url[r], PasteViewTemplate) = {}
        /\ views[url[r]] = 1

\* View requests whose lookup of u and whose increment both succeeded.
Counted(u) ==
    {r \in Reqs : /\ flow[r] = "view" /\ url[r] = u /\ p[r] # NoPaste
                  /\ Has(r, "incr_views_by_url")
                  /\ ~(Done(r) /\ Errored(r))}

\* C20 (state part): the count of every identifier is its initial value, 0,
\* plus the number of view requests for it whose lookup and increment both
\* succeeded; edit, edit-config and render requests add nothing.
C20_CountState ==
    \A u \in Urls : views[u] = Cardinality(Counted(u))

\* C20: with an atomic increment, at every point of every interleaving (so
\* also once all requests have finished) the count of a paste is its initial
\* value plus the number of successful view increments for it, and it never
\* decreases.
C20_CountIsSumOfViews ==
    [](C20_CountState) /\ [][\A u \in Urls : views'[u] >= views[u]]_vars

\* C20's case: all requests have finished and two of them were views of the
\* same paste, both counted.
C20_Witness ==
    /\ \A r \in Reqs : Done(r)
    /\ \E u \in Urls : views[u] >= 2

====
